---- MODULE Spec2Model ----
(***************************************************************************)
(* Forward-chaining flag engine `Mind` of the examples basic-flag and      *)
(* simple-flag.  The two examples are variants of one engine: basic-flag   *)
(* has links with triggers and forbids and keeps a set of active flags;    *)
(* simple-flag has rules with triggers only and keeps, for each active     *)
(* flag, the Source that activated it.  The model keeps the links of       *)
(* basic-flag (a simple-flag rule is a link with no forbids) and the       *)
(* active_memory map of simple-flag (the active_flags set of basic-flag    *)
(* is its domain).                                                         *)
(***************************************************************************)
EXTENDS Integers, Sequences, FiniteSets, TLC

\* ------------------------------------------------------------------------
\* Bounds of the model
\* ------------------------------------------------------------------------

\* The labels the driver may use.
Labels == {"A", "B", "C"}

\* The largest number of links the driver defines and the longest list of
\* labels it injects in one call.
MaxLinks == 2
MaxInject == 2

SeqsUpTo(S, n) == UNION {[1..k -> S] : k \in 0..n}

\* The rule definitions the driver may make, each any number of times and in
\* any order: a conjunction, a chain, two rules with one output, a rule that
\* closes a cycle, an inhibited rule whose inhibitor can be derived, a rule
\* with no trigger, and rules whose output is their own trigger or forbid.
RuleDef(triggers, forbids, output) ==
    [triggers |-> triggers, forbids |-> forbids, output |-> output]

RuleDefs ==
    { RuleDef(<<"A", "B">>, << >>, "C"),
      RuleDef(<<"A">>, << >>, "B"),
      RuleDef(<<"B">>, << >>, "C"),
      RuleDef(<<"A">>, << >>, "C"),
      RuleDef(<<"B">>, << >>, "A"),
      RuleDef(<<"A">>, <<"C">>, "B"),
      RuleDef(<< >>, << >>, "A"),
      RuleDef(<<"A">>, << >>, "A"),
      RuleDef(<<"A">>, <<"B">>, "B") }

Range(s) == {s[k] : k \in DOMAIN s}

\* ------------------------------------------------------------------------
\* State
\* ------------------------------------------------------------------------

VARIABLES
    label_to_id,    \* Symbol Table: label -> FlagId
    id_to_label,    \* Symbol Table: FlagId -> label
    next_id,        \* next FlagId to allocate
    links,          \* Rule Store: sequence of Link
    active_memory,  \* Active Memory: FlagId -> Source
    pc,             \* "idle", or "ponder" while the tick loop runs
    tick,           \* the loop's tick counter (0 outside a run)
    ret,            \* return value of the last operation, if it was a tick
    out,            \* what the last operation printed, as events
    fired,          \* indices of the links the last tick found satisfied
    call,           \* the last operation and its arguments
    pre_memory,     \* active_memory at the start of the last inject or tick
                    \* (empty after any other operation)
    changed         \* number of ticks since the last reset_memory that
                    \* returned true

vars == <<label_to_id, id_to_label, next_id, links, active_memory,
          pc, tick, ret, out, fired, call, pre_memory, changed>>

\* HashMap::new(): the empty map.
EmptyMap == << >>

\* HashMap::insert(k, v): adds the entry or overwrites the one present.
Put(f, k, v) == [x \in DOMAIN f \cup {k} |-> IF x = k THEN v ELSE f[x]]

\* enum Source
Input == [kind |-> "Input"]
Derived(causes) == [kind |-> "Derived", causes |-> causes]

\* struct Link (struct Rule of simple-flag has no forbids).
Link(t_ids, f_ids, o_id) == [triggers |-> t_ids, forbids |-> f_ids, output |-> o_id]

\* The Symbol Table of the current state, as one value.
Table == [label_to_id |-> label_to_id, id_to_label |-> id_to_label, next_id |-> next_id]

\* active_flags of basic-flag: the identifiers in Active Memory.
active_flags == DOMAIN active_memory

\* ------------------------------------------------------------------------
\* Symbol Table
\* ------------------------------------------------------------------------

\* Mind::id without the lookup of the known label: it allocates on every
\* call.
IdAlwaysAllocates(tab, lbl) ==
    LET id == tab.next_id IN
    [tab |-> [label_to_id |-> Put(tab.label_to_id, lbl, id),
              id_to_label |-> Put(tab.id_to_label, id, lbl),
              next_id |-> id + 1],
     id |-> id]

\* Mind::id: the identifier of a label, allocated if the label is new.
Id(tab, lbl) ==
    IF lbl \in DOMAIN tab.label_to_id
    THEN [tab |-> tab, id |-> tab.label_to_id[lbl]]
    ELSE LET id == tab.next_id IN
         [tab |-> [label_to_id |-> Put(tab.label_to_id, lbl, id),
                   id_to_label |-> Put(tab.id_to_label, id, lbl),
                   next_id |-> id + 1],
          id |-> id]

\* Mind::label: the label of an identifier, or the placeholder "?<id>".
LabelOf(i2l, id) == IF id \in DOMAIN i2l THEN i2l[id] ELSE "?" \o ToString(id)

\* names.iter().map(|n| self.id(n)).collect(): interns the names from the
\* k-th on, left to right.
RECURSIVE Ids(_, _, _)
Ids(tab, names, k) ==
    IF k > Len(names) THEN [tab |-> tab, ids |-> << >>]
    ELSE LET first == Id(tab, names[k])
             rest == Ids(first.tab, names, k + 1)
         IN [tab |-> rest.tab, ids |-> <<first.id>> \o rest.ids]

\* ------------------------------------------------------------------------
\* Rule definition
\* ------------------------------------------------------------------------

\* Mind::rule (Mind::learn is the case forbids = << >>): the new Symbol
\* Table and the new Rule Store.
DefineRule(tab, ls, triggers, forbids, output) ==
    LET t == Ids(tab, triggers, 1)
        f == Ids(t.tab, forbids, 1)
        o == Id(f.tab, output)
    IN [tab |-> o.tab,
        links |-> Append(ls, Link(t.ids, f.ids, o.id))]

\* ------------------------------------------------------------------------
\* Inject
\* ------------------------------------------------------------------------

InputEvent(name) == [kind |-> "Input", label |-> name]

\* Mind::inject with an insert that keeps an entry already present.
RECURSIVE InjectKeepsOld(_, _, _, _)
InjectKeepsOld(tab, mem, inputs, k) ==
    IF k > Len(inputs) THEN [tab |-> tab, memory |-> mem, out |-> << >>]
    ELSE LET i == Id(tab, inputs[k])
             m == IF i.id \in DOMAIN mem THEN mem ELSE Put(mem, i.id, Input)
             rest == InjectKeepsOld(i.tab, m, inputs, k + 1)
         IN [tab |-> rest.tab, memory |-> rest.memory,
             out |-> <<InputEvent(inputs[k])>> \o rest.out]

\* Mind::inject: the loop over the inputs from the k-th on.
RECURSIVE InjectFrom(_, _, _, _)
InjectFrom(tab, mem, inputs, k) ==
    IF k > Len(inputs) THEN [tab |-> tab, memory |-> mem, out |-> << >>]
    ELSE LET i == Id(tab, inputs[k])
             rest == InjectFrom(i.tab, Put(mem, i.id, Input), inputs, k + 1)
         IN [tab |-> rest.tab, memory |-> rest.memory,
             out |-> <<InputEvent(inputs[k])>> \o rest.out]

\* ------------------------------------------------------------------------
\* Tick
\* ------------------------------------------------------------------------

\* The trigger check with any() in place of all().
TriggersMetAny(link, mem) == \E k \in DOMAIN link.triggers : link.triggers[k] \in DOMAIN mem

\* link.triggers.iter().all(|t| active.contains(t))
TriggersMet(link, mem) == \A k \in DOMAIN link.triggers : link.triggers[k] \in DOMAIN mem

\* The forbid check left out (the tick of simple-flag run on links that
\* carry forbids).
InhibitionNever(link, mem) == FALSE

\* link.forbids.iter().any(|f| active.contains(f))
InhibitionActive(link, mem) == \E k \in DOMAIN link.forbids : link.forbids[k] \in DOMAIN mem

\* One entry of new_activations; rule is the index of the link that made it.
Activation(i, link) == [rule |-> i, output |-> link.output, causes |-> link.triggers]

\* The scan loop committing as it goes: a link later in the store sees the
\* outputs of the links satisfied before it in the same tick.
RECURSIVE ScanEager(_, _, _)
ScanEager(ls, mem, i) ==
    IF i > Len(ls) THEN << >>
    ELSE LET link == ls[i] IN
         IF link.output \in DOMAIN mem THEN ScanEager(ls, mem, i + 1)
         ELSE IF ~(\A k \in DOMAIN link.triggers : link.triggers[k] \in DOMAIN mem)
              THEN ScanEager(ls, mem, i + 1)
         ELSE IF \E k \in DOMAIN link.forbids : link.forbids[k] \in DOMAIN mem
              THEN ScanEager(ls, mem, i + 1)
         ELSE <<[rule |-> i, output |-> link.output, causes |-> link.triggers]>>
              \o ScanEager(ls, [x \in DOMAIN mem \cup {link.output} |->
                                   IF x = link.output
                                   THEN [kind |-> "Derived", causes |-> link.triggers]
                                   ELSE mem[x]], i + 1)

\* The scan loop without the check of output redundancy.
RECURSIVE ScanNoRedundancyCheck(_, _, _)
ScanNoRedundancyCheck(ls, mem, i) ==
    IF i > Len(ls) THEN << >>
    ELSE LET link == ls[i]
             rest == ScanNoRedundancyCheck(ls, mem, i + 1)
         IN IF ~(\A k \in DOMAIN link.triggers : link.triggers[k] \in DOMAIN mem) THEN rest
            ELSE IF \E k \in DOMAIN link.forbids : link.forbids[k] \in DOMAIN mem THEN rest
            ELSE <<[rule |-> i, output |-> link.output, causes |-> link.triggers]>> \o rest

\* The scan loop of Mind::tick over the links from the i-th on, against the
\* memory mem, which the loop does not change.
RECURSIVE Scan(_, _, _)
Scan(ls, mem, i) ==
    IF i > Len(ls) THEN << >>
    ELSE LET link == ls[i]
             rest == Scan(ls, mem, i + 1)
         IN IF link.output \in DOMAIN mem THEN rest
            ELSE IF ~TriggersMet(link, mem) THEN rest
            ELSE IF InhibitionActive(link, mem) THEN rest
            ELSE <<Activation(i, link)>> \o rest

\* The commit loop building the memory from the new activations alone.
RECURSIVE CommitReplaces(_, _, _)
CommitReplaces(mem, new, k) ==
    IF k > Len(new) THEN << >>
    ELSE LET rest == CommitReplaces(mem, new, k + 1) IN
         [x \in DOMAIN rest \cup {new[k].output} |->
             IF x \in DOMAIN rest THEN rest[x]
             ELSE [kind |-> "Derived", causes |-> new[k].causes]]

\* The commit loop of Mind::tick over new_activations from the k-th on.
RECURSIVE Commit(_, _, _)
Commit(mem, new, k) ==
    IF k > Len(new) THEN mem
    ELSE Commit(Put(mem, new[k].output, Derived(new[k].causes)), new, k + 1)

\* The line the commit loop prints for one activation.
DerivedEvent(i2l, tick_count, a) ==
    [kind |-> "Derived", tick |-> tick_count,
     causes |-> [k \in DOMAIN a.causes |-> LabelOf(i2l, a.causes[k])],
     output |-> LabelOf(i2l, a.output)]

\* Mind::tick reporting a change whenever some link has its triggers met,
\* its output known or not.
TickReportsMet(ls, mem, i2l, tick_count) ==
    LET new_activations == Scan(ls, mem, 1) IN
    [ret |-> \E i \in DOMAIN ls : TriggersMet(ls[i], mem),
     memory |-> Commit(mem, new_activations, 1),
     out |-> [k \in DOMAIN new_activations |->
                 DerivedEvent(i2l, tick_count, new_activations[k])],
     fired |-> [k \in DOMAIN new_activations |-> new_activations[k].rule]]

\* Mind::tick reporting no change, and committing nothing, when fewer than
\* two links are satisfied.
TickIgnoresSingle(ls, mem, i2l, tick_count) ==
    LET new_activations == Scan(ls, mem, 1) IN
    IF Len(new_activations) <= 1
    THEN [ret |-> FALSE, memory |-> mem, out |-> << >>, fired |-> << >>]
    ELSE [ret |-> TRUE,
          memory |-> Commit(mem, new_activations, 1),
          out |-> [k \in DOMAIN new_activations |->
                      DerivedEvent(i2l, tick_count, new_activations[k])],
          fired |-> [k \in DOMAIN new_activations |-> new_activations[k].rule]]

\* Mind::tick: its return value, the memory it leaves, what it prints, and
\* the links it found satisfied.
Tick(ls, mem, i2l, tick_count) ==
    LET new_activations == Scan(ls, mem, 1) IN
    IF Len(new_activations) = 0
    THEN [ret |-> FALSE, memory |-> mem, out |-> << >>, fired |-> << >>]
    ELSE [ret |-> TRUE,
          memory |-> Commit(mem, new_activations, 1),
          out |-> [k \in DOMAIN new_activations |->
                      DerivedEvent(i2l, tick_count, new_activations[k])],
          fired |-> [k \in DOMAIN new_activations |-> new_activations[k].rule]]

\* Mind::ponder (and the loop of simple-flag's main) run from tick number t:
\* the memory at the fixed point and the number of calls to tick made.
RECURSIVE RunToFixedPoint(_, _, _, _)
RunToFixedPoint(ls, mem, i2l, t) ==
    LET r == Tick(ls, mem, i2l, t) IN
    IF r.ret THEN RunToFixedPoint(ls, r.memory, i2l, t + 1)
    ELSE [memory |-> mem, ticks |-> t]

\* ------------------------------------------------------------------------
\* Trace
\* ------------------------------------------------------------------------

\* Mind::node_text
NodeText(i2l, mem, id) ==
    [label |-> LabelOf(i2l, id),
     mark |-> IF id \notin DOMAIN mem THEN "(MISSING)"
              ELSE IF mem[id].kind = "Input" THEN "(Input)" ELSE ""]

\* Mind::build_tree_recursive: the children of the node of id.
RECURSIVE BuildTree(_, _, _)
BuildTree(i2l, mem, id) ==
    IF id \in DOMAIN mem /\ mem[id].kind = "Derived"
    THEN [k \in DOMAIN mem[id].causes |->
             [node |-> NodeText(i2l, mem, mem[id].causes[k]),
              children |-> BuildTree(i2l, mem, mem[id].causes[k])]]
    ELSE << >>

\* Mind::trace with the two messages swapped.
TraceOfSwapped(l2i, i2l, mem, target) ==
    IF target \in DOMAIN l2i
    THEN LET id == l2i[target] IN
         IF id \in DOMAIN mem
         THEN [kind |-> "Tree", label |-> target,
               node |-> NodeText(i2l, mem, id),
               children |-> BuildTree(i2l, mem, id)]
         ELSE [kind |-> "Unknown", label |-> target]
    ELSE [kind |-> "NotInMemory", label |-> target]

\* Mind::trace: what it reports for the target.
TraceOf(l2i, i2l, mem, target) ==
    IF target \in DOMAIN l2i
    THEN LET id == l2i[target] IN
         IF id \in DOMAIN mem
         THEN [kind |-> "Tree", label |-> target,
               node |-> NodeText(i2l, mem, id),
               children |-> BuildTree(i2l, mem, id)]
         ELSE [kind |-> "NotInMemory", label |-> target]
    ELSE [kind |-> "Unknown", label |-> target]

\* ------------------------------------------------------------------------
\* Operations
\* ------------------------------------------------------------------------

\* Mind::new
Init ==
    /\ label_to_id = EmptyMap
    /\ id_to_label = EmptyMap
    /\ next_id = 1
    /\ links = << >>
    /\ active_memory = EmptyMap
    /\ pc = "idle"
    /\ tick = 0
    /\ ret = FALSE
    /\ out = << >>
    /\ fired = << >>
    /\ call = [name |-> "new"]
    /\ pre_memory = EmptyMap
    /\ changed = 0

\* mind.rule(triggers, forbids, output) / mind.learn(triggers, output)
Rule ==
    /\ pc = "idle"
    /\ Len(links) < MaxLinks
    /\ \E d \in RuleDefs :
          LET r == DefineRule(Table, links, d.triggers, d.forbids, d.output) IN
          /\ label_to_id' = r.tab.label_to_id
          /\ id_to_label' = r.tab.id_to_label
          /\ next_id' = r.tab.next_id
          /\ links' = r.links
          /\ call' = [name |-> "rule"]
    /\ pre_memory' = EmptyMap
    /\ tick' = 0
    /\ out' = << >>
    /\ fired' = << >>
    /\ ret' = FALSE
    /\ UNCHANGED <<active_memory, pc, changed>>

\* reset_memory keeping the injected facts and dropping the derived ones.
ClearKeepsInputs(mem) ==
    [id \in {x \in DOMAIN mem : mem[x].kind = "Input"} |-> mem[id]]

\* reset_memory dropping the injected facts and keeping the derived ones.
ClearKeepsDerived(mem) ==
    [id \in {x \in DOMAIN mem : mem[x].kind = "Derived"} |-> mem[id]]

\* self.active_flags.clear(): the memory reset_memory leaves.
Cleared(mem) == EmptyMap

\* mind.reset_memory()
ResetMemory ==
    /\ pc = "idle"
    /\ active_memory' = Cleared(active_memory)
    /\ pre_memory' = EmptyMap
    /\ call' = [name |-> "reset_memory"]
    /\ tick' = 0
    /\ out' = << >>
    /\ fired' = << >>
    /\ ret' = FALSE
    /\ changed' = 0
    /\ UNCHANGED <<label_to_id, id_to_label, next_id, links, pc>>

\* mind.inject(inputs)
Inject ==
    /\ pc = "idle"
    /\ \E inputs \in SeqsUpTo(Labels, MaxInject) :
          LET r == InjectFrom(Table, active_memory, inputs, 1) IN
          /\ label_to_id' = r.tab.label_to_id
          /\ id_to_label' = r.tab.id_to_label
          /\ next_id' = r.tab.next_id
          /\ active_memory' = r.memory
          /\ out' = r.out
          /\ call' = [name |-> "inject", inputs |-> inputs]
    /\ pre_memory' = active_memory
    /\ tick' = 0
    /\ fired' = << >>
    /\ ret' = FALSE
    /\ UNCHANGED <<links, pc, changed>>

\* mind.ponder() is entered (simple-flag: `let mut tick = 1; loop {`).
Ponder ==
    /\ pc = "idle"
    /\ pc' = "ponder"
    /\ tick' = 1
    /\ pre_memory' = EmptyMap
    /\ call' = [name |-> "ponder"]
    /\ out' = << >>
    /\ fired' = << >>
    /\ ret' = FALSE
    /\ UNCHANGED <<label_to_id, id_to_label, next_id, links, active_memory, changed>>

\* One iteration of the loop: self.tick(tick), then tick += 1 or leave.
TickStep ==
    /\ pc = "ponder"
    /\ LET r == Tick(links, active_memory, id_to_label, tick) IN
          /\ active_memory' = r.memory
          /\ ret' = r.ret
          /\ out' = r.out
          /\ fired' = r.fired
          /\ tick' = IF r.ret THEN tick + 1 ELSE tick
          /\ pc' = IF r.ret THEN "ponder" ELSE "idle"
          /\ changed' = IF r.ret THEN changed + 1 ELSE changed
    /\ pre_memory' = active_memory
    /\ call' = [name |-> "tick", tick_count |-> tick]
    /\ UNCHANGED <<label_to_id, id_to_label, next_id, links>>

\* mind.trace(target)
Trace ==
    /\ pc = "idle"
    /\ \E target \in Labels :
          /\ out' = <<TraceOf(label_to_id, id_to_label, active_memory, target)>>
          /\ call' = [name |-> "trace", target |-> target]
    /\ pre_memory' = EmptyMap
    /\ tick' = 0
    /\ fired' = << >>
    /\ ret' = FALSE
    /\ UNCHANGED <<label_to_id, id_to_label, next_id, links, active_memory, pc, changed>>

Next == Rule \/ ResetMemory \/ Inject \/ Ponder \/ TickStep \/ Trace

Spec == Init /\ [][Next]_vars

\* The loop of ponder is not suspended: once entered, it keeps iterating.
FairSpec == Spec /\ WF_vars(TickStep)

\* ------------------------------------------------------------------------
\* Properties
\* ------------------------------------------------------------------------

\* The identifiers the last operation added to Active Memory.
Newly == DOMAIN active_memory \ DOMAIN pre_memory

\* A link can newly fire against the memory m: its output is absent, all
\* its triggers are present and none of its forbids is.
Satisfied(link, m) ==
    /\ link.output \notin DOMAIN m
    /\ Range(link.triggers) \subseteq DOMAIN m
    /\ Range(link.forbids) \cap DOMAIN m = {}

\* The number of distinct identifiers in the Symbol Table.
NumIdentifiers == Cardinality(DOMAIN id_to_label)

\* The labels of the identifiers in the memory mem.
LabelsIn(i2l, mem) == {LabelOf(i2l, id) : id \in DOMAIN mem}

\* C1: the outputs one tick commits are exactly the outputs of the links
\* satisfied by Active Memory as it stood at the start of the tick, and
\* every cause recorded for them was in Active Memory at that start.
C1_SnapshotSemantics ==
    call.name = "tick" =>
        /\ Newly = {links[i].output :
                       i \in {j \in DOMAIN links : Satisfied(links[j], pre_memory)}}
        /\ \A id \in Newly :
              /\ active_memory[id].kind = "Derived"
              /\ Range(active_memory[id].causes) \subseteq DOMAIN pre_memory

\* C1 witness: a tick has committed an output with a recorded cause while
\* another link, whose trigger that output is, has waited for the next tick.
C1_Witness ==
    /\ call.name = "tick"
    /\ \E id \in Newly :
          /\ active_memory[id].causes # << >>
          /\ \E i \in DOMAIN links :
                /\ id \in Range(links[i].triggers)
                /\ Range(links[i].triggers) \subseteq DOMAIN active_memory
                /\ links[i].output \notin DOMAIN active_memory

\* The memory and Symbol Table after the inject calls of the list calls,
\* made one after the other.
RECURSIVE InjectCalls(_, _, _)
InjectCalls(tab, mem, calls) ==
    IF calls = << >> THEN [tab |-> tab, memory |-> mem]
    ELSE LET r == InjectFrom(tab, mem, Head(calls), 1) IN
         InjectCalls(r.tab, r.memory, Tail(calls))

\* The labels at the fixed point reached from the current state after the
\* inject calls of the list calls.
FixedPointLabelsAfter(calls) ==
    LET s == InjectCalls(Table, active_memory, calls)
        fp == RunToFixedPoint(links, s.memory, s.tab.id_to_label, 1)
    IN LabelsIn(s.tab.id_to_label, fp.memory)

\* C2: a link with no forbids fires in a tick only if all its triggers were
\* in Active Memory at the start of the tick, and it does fire in a tick at
\* whose start they all were and its output was not; the labels at the
\* fixed point do not depend on the order in which two facts are injected,
\* in one call or in two.
C2_AndGate ==
    /\ call.name = "tick" =>
          \A i \in DOMAIN links :
             links[i].forbids = << >> =>
                /\ i \in Range(fired) =>
                      Range(links[i].triggers) \subseteq DOMAIN pre_memory
                /\ ( /\ Range(links[i].triggers) \subseteq DOMAIN pre_memory
                     /\ links[i].output \notin DOMAIN pre_memory )
                      => i \in Range(fired)
    /\ pc = "idle" =>
          \A a, b \in Labels :
             LET ab == FixedPointLabelsAfter(<< <<a, b>> >>) IN
             /\ ab = FixedPointLabelsAfter(<< <<b, a>> >>)
             /\ ab = FixedPointLabelsAfter(<< <<a>>, <<b>> >>)
             /\ ab = FixedPointLabelsAfter(<< <<b>>, <<a>> >>)

\* C2 witness: a link with two distinct triggers and no forbids has fired,
\* and an earlier tick of the same session could not have fired it.
C2_Witness ==
    /\ call.name = "tick"
    /\ \E i \in Range(fired) :
          /\ links[i].forbids = << >>
          /\ Len(links[i].triggers) = 2
          /\ links[i].triggers[1] # links[i].triggers[2]
          /\ \E t \in Range(links[i].triggers) : pre_memory[t].kind = "Derived"

\* The new activations of the last tick, and Active Memory as it stood in
\* the commit loop right before the k-th of them was inserted.
LastActivations == Scan(links, pre_memory, 1)
MemoryAtCommit(k) == Commit(pre_memory, SubSeq(LastActivations, 1, k - 1), 1)

\* C3 as claimed, for a link whose output is neither a trigger nor a forbid
\* of its own: its output is never added by that link while one of its
\* forbids is in Active Memory, also when the forbid was derived by another
\* link; and the link fires in a tick at whose start its triggers are
\* present, its forbids absent and its output absent.
C3_NeverAddedWhileForbidPresent ==
    call.name = "tick" =>
        /\ \A k \in DOMAIN fired :
              links[fired[k]].output \notin
                    Range(links[fired[k]].forbids) \cup Range(links[fired[k]].triggers)
                 => Range(links[fired[k]].forbids) \cap DOMAIN MemoryAtCommit(k) = {}
        /\ \A i \in DOMAIN links :
              Satisfied(links[i], pre_memory) => i \in Range(fired)

\* C3 amended: a link with forbids does not fire in a tick at whose start
\* one of its forbids is in Active Memory, and it fires in a tick at whose
\* start its triggers are present, its forbids absent and its output
\* absent (a forbid derived in that same tick does not stop it).
C3_InhibitionAtTickStart ==
    call.name = "tick" =>
        \A i \in DOMAIN links :
           links[i].forbids # << >> =>
              /\ i \in Range(fired) =>
                    Range(links[i].forbids) \cap DOMAIN pre_memory = {}
              /\ Satisfied(links[i], pre_memory) => i \in Range(fired)

\* C3 witness: a tick has left out a link whose triggers were present and
\* whose output was absent, because its forbid, derived by another link in
\* an earlier tick, was present.
C3_Witness ==
    /\ call.name = "tick"
    /\ \E i \in DOMAIN links :
          /\ links[i].triggers # << >>
          /\ Range(links[i].triggers) \subseteq DOMAIN pre_memory
          /\ links[i].output \notin DOMAIN active_memory
          /\ i \notin Range(fired)
          /\ \E f \in Range(links[i].forbids) :
                f \in DOMAIN pre_memory /\ pre_memory[f].kind = "Derived"

\* C4 as claimed: a run to the fixed point makes at most N calls to tick,
\* the last one included, N being the number of distinct identifiers.
C4_AtMostNTicks ==
    call.name = "tick" => call.tick_count <= NumIdentifiers

\* C4 amended: a run to the fixed point stops, and it makes at most N + 1
\* calls to tick, the last one included: while the loop runs its next
\* iteration can be taken, and the number of the call it is about to make,
\* which every iteration that stays in the loop raises, is at most N + 1.
C4_AtMostNPlusOneTicks ==
    /\ call.name = "tick" => call.tick_count <= NumIdentifiers + 1
    /\ pc = "ponder" => tick <= NumIdentifiers + 1 /\ ENABLED TickStep

\* C4 witness: a run has ended with its (N + 1)-th call to tick, every
\* identifier of a non-empty Symbol Table being in Active Memory.
C4_Witness ==
    /\ call.name = "tick"
    /\ pc = "idle"
    /\ NumIdentifiers >= 2
    /\ call.tick_count = NumIdentifiers + 1

\* C5: inject and tick remove no identifier from Active Memory; every
\* output a tick commits was absent at the start of the tick; a tick leaves
\* the provenance of every identifier present at its start as it was and
\* prints no derivation of it.
C5_MonotoneStableMemory ==
    /\ call.name \in {"tick", "inject"} => DOMAIN pre_memory \subseteq DOMAIN active_memory
    /\ call.name = "tick" =>
          /\ \A id \in DOMAIN pre_memory : active_memory[id] = pre_memory[id]
          /\ \A k \in DOMAIN fired : links[fired[k]].output \notin DOMAIN pre_memory
          /\ \A k \in DOMAIN out :
                out[k].output \notin LabelsIn(id_to_label, pre_memory)

\* C5 witness: a tick has committed an output next to facts that were in
\* memory before it, one of them Derived, while a link whose output was
\* already present had its triggers met.
C5_Witness ==
    /\ call.name = "tick"
    /\ Newly # {}
    /\ \E id \in DOMAIN pre_memory : pre_memory[id].kind = "Derived"
    /\ \E i \in DOMAIN links :
          /\ links[i].output \in DOMAIN pre_memory
          /\ Range(links[i].triggers) \subseteq DOMAIN pre_memory
          /\ links[i].triggers # << >>

\* The first link in store order that is satisfied by the memory m and has
\* the output id.
FirstSatisfied(m, id) ==
    CHOOSE i \in DOMAIN links :
        /\ Satisfied(links[i], m) /\ links[i].output = id
        /\ \A j \in DOMAIN links :
              (Satisfied(links[j], m) /\ links[j].output = id) => i <= j

\* C6 as claimed, for two links with one output and different, non-empty
\* trigger lists that are both satisfied at the start of a tick: one
\* derivation of the output is committed and one derivation event is
\* printed, and the causes recorded are the triggers of the link that
\* comes first in store order.
C6_FirstDerivationWins ==
    call.name = "tick" =>
        \A i, j \in DOMAIN links :
           ( /\ i < j
             /\ links[i].output = links[j].output
             /\ links[i].triggers # << >> /\ links[j].triggers # << >>
             /\ links[i].triggers # links[j].triggers
             /\ Satisfied(links[i], pre_memory)
             /\ Satisfied(links[j], pre_memory) )
           => LET id == links[i].output IN
              /\ id \in Newly
              /\ active_memory[id] = Derived(links[FirstSatisfied(pre_memory, id)].triggers)
              /\ Cardinality({k \in DOMAIN out :
                                 out[k].output = LabelOf(id_to_label, id)}) = 1

\* The permutations of the sequence ls (the orders a Rule Store can have).
StoreOrders(ls) ==
    {[k \in DOMAIN ls |-> ls[f[k]]] :
        f \in {g \in [DOMAIN ls -> DOMAIN ls] : \A x, y \in DOMAIN ls : g[x] = g[y] => x = y}}

C8_ReturnReportsChange ==
    call.name = "tick" =>
        /\ ret = FALSE <=> ~(\E i \in DOMAIN links : Satisfied(links[i], pre_memory))
        /\ ret = FALSE => active_memory = pre_memory /\ out = << >>
        /\ ret = TRUE <=> Newly # {}

\* C8 witness: a tick has returned false although a link had all its
\* triggers met, its output being in memory already.
C8_Witness ==
    /\ call.name = "tick"
    /\ ret = FALSE
    /\ active_memory # EmptyMap
    /\ \E i \in DOMAIN links :
          links[i].triggers # << >> /\ TriggersMet(links[i], pre_memory)

\* The identifiers of the labels the last inject listed.
Injected == {label_to_id[call.inputs[k]] : k \in DOMAIN call.inputs}

\* C9: after inject, every listed label's identifier is in Active Memory
\* with Input provenance, whatever its provenance was before; every other
\* identifier has the provenance it had, or none; one Input event per label
\* is printed, in input order.
C9_InjectAlwaysWins ==
    call.name = "inject" =>
        /\ Range(call.inputs) \subseteq DOMAIN label_to_id
        /\ \A id \in Injected : id \in DOMAIN active_memory /\ active_memory[id] = Input
        /\ DOMAIN active_memory = DOMAIN pre_memory \cup Injected
        /\ \A id \in DOMAIN pre_memory \ Injected : active_memory[id] = pre_memory[id]
        /\ out = [k \in DOMAIN call.inputs |-> InputEvent(call.inputs[k])]

\* C9 witness: inject has listed the same label twice, that label's
\* identifier was in memory with Derived provenance, and another Derived
\* identifier was not listed.
C9_Witness ==
    /\ call.name = "inject"
    /\ Len(call.inputs) = 2
    /\ call.inputs[1] = call.inputs[2]
    /\ \E id \in Injected : id \in DOMAIN pre_memory /\ pre_memory[id].kind = "Derived"
    /\ \E id \in DOMAIN pre_memory \ Injected : pre_memory[id].kind = "Derived"

\* The Symbol Table is a pair of inverse bijections over the identifiers
\* 1 .. next_id - 1, and interning a known label returns its identifier and
\* the table as it is.
SymbolTableOk ==
    /\ next_id >= 1
    /\ DOMAIN id_to_label = 1 .. (next_id - 1)
    /\ \A l \in DOMAIN label_to_id :
          /\ label_to_id[l] \in DOMAIN id_to_label
          /\ id_to_label[label_to_id[l]] = l
          /\ Id(Table, l) = [tab |-> Table, id |-> label_to_id[l]]
    /\ \A i \in DOMAIN id_to_label :
          /\ id_to_label[i] \in DOMAIN label_to_id
          /\ label_to_id[id_to_label[i]] = i

\* A step keeps the identifier of every label that has one, and a step of
\* reset_memory, tick or trace leaves the Symbol Table as it is.
SymbolTableStable ==
    /\ \A l \in DOMAIN label_to_id :
          l \in DOMAIN label_to_id' /\ label_to_id'[l] = label_to_id[l]
    /\ \A i \in DOMAIN id_to_label :
          i \in DOMAIN id_to_label' /\ id_to_label'[i] = id_to_label[i]
    /\ next_id' >= next_id
    /\ call'.name \in {"reset_memory", "tick", "trace", "ponder"} =>
          UNCHANGED <<label_to_id, id_to_label, next_id>>

\* C10: in every reachable state label_to_id and id_to_label are inverse
\* bijections, the identifiers are exactly 1 .. next_id - 1, and interning a
\* known label returns its identifier without allocating; no step changes
\* the identifier of a label, and reset_memory, tick and trace do not touch
\* the Symbol Table.
C10_SymbolTableInvariant == [](SymbolTableOk) /\ [][SymbolTableStable]_vars

\* C10 witness: with all three labels interned, inject has interned a label
\* it had interned a moment before.
C10_Witness ==
    /\ call.name = "inject"
    /\ Len(call.inputs) = 2
    /\ call.inputs[1] = call.inputs[2]
    /\ next_id = Cardinality(Labels) + 1
    /\ links # << >>

\* The Rule Store read on labels: each link with the labels of its triggers,
\* forbids and output.
LabelRules ==
    {[triggers |-> {LabelOf(id_to_label, t) : t \in Range(links[i].triggers)},
      forbids |-> {LabelOf(id_to_label, f) : f \in Range(links[i].forbids)},
      output |-> LabelOf(id_to_label, links[i].output)] : i \in DOMAIN links}

\* One synchronous step of the rules on a set of labels: the set with the
\* output of every rule whose triggers are in it and whose forbids and
\* output are not.
LabelStep(rules, M) ==
    M \cup {r.output : r \in {q \in rules : /\ q.output \notin M
                                             /\ q.triggers \subseteq M
                                             /\ q.forbids \cap M = {}}}

\* The steps repeated until nothing is added: the set reached and the
\* number of steps made, the last one, which adds nothing, included.
RECURSIVE LabelRun(_, _, _)
LabelRun(rules, M, t) ==
    IF LabelStep(rules, M) = M THEN [labels |-> M, ticks |-> t]
    ELSE LabelRun(rules, LabelStep(rules, M), t + 1)

\* A session run on the engine with Symbol Table tab and memory mem:
\* reset_memory, inject(inputs), then the loop to the fixed point.
SessionOf(tab, mem, inputs) ==
    LET i == InjectFrom(tab, Cleared(mem), inputs, 1)
        fp == RunToFixedPoint(links, i.memory, i.tab.id_to_label, 1)
    IN [tab |-> i.tab, memory |-> fp.memory, ticks |-> fp.ticks]

\* In an idle state, whatever earlier sessions left there, a session that
\* injects inputs ends with labels and a tick count that are a function of
\* the rules and of inputs alone, and the same session run once more ends
\* with the same Active Memory and tick count.
SessionIndependent ==
    pc = "idle" =>
        \A inputs \in SeqsUpTo(Labels, MaxInject) :
           LET first == SessionOf(Table, active_memory, inputs)
               again == SessionOf(first.tab, first.memory, inputs)
               ref == LabelRun(LabelRules, Range(inputs), 1)
           IN /\ LabelsIn(first.tab.id_to_label, first.memory) = ref.labels
              /\ first.ticks = ref.ticks
              /\ again.memory = first.memory
              /\ again.ticks = first.ticks

\* A step of reset_memory empties Active Memory and leaves the Symbol Table
\* and the Rule Store as they are.
ResetFrame ==
    call'.name = "reset_memory" =>
        /\ active_memory' = EmptyMap
        /\ UNCHANGED <<label_to_id, id_to_label, next_id, links>>

\* C11: reset_memory empties Active Memory and changes neither the Symbol
\* Table nor the Rule Store; the labels at the fixed point and the tick
\* count of a session depend only on the rules and on the facts injected in
\* it, not on what earlier sessions injected or derived; a session repeated
\* with the same facts ends with the same Active Memory and tick count.
C11_SessionIndependence == [](SessionIndependent) /\ [][ResetFrame]_vars

\* C11 witness: a session has ended at its fixed point with a derived fact,
\* on an engine whose Symbol Table holds a label that no link mentions and
\* that is not in memory: an earlier session injected it.
C11_Witness ==
    /\ call.name = "tick"
    /\ ret = FALSE
    /\ \E id \in DOMAIN active_memory : active_memory[id].kind = "Derived"
    /\ \E id \in DOMAIN id_to_label :
          /\ id \notin DOMAIN active_memory
          /\ \A i \in DOMAIN links :
                id \notin Range(links[i].triggers) \cup Range(links[i].forbids)
                          \cup {links[i].output}

\* What the last trace reported, in a state that a trace has just left.
TraceReport == out[1]

\* The last trace reported "Unknown concept" exactly for a label with no
\* identifier, "Memory does not contain" exactly for a label whose
\* identifier is not in Active Memory, and a tree exactly for a label whose
\* identifier is.
TraceOutcomeOk ==
    call.name = "trace" =>
        /\ Len(out) = 1
        /\ TraceReport.label = call.target
        /\ TraceReport.kind \in {"Unknown", "NotInMemory", "Tree"}
        /\ TraceReport.kind = "Unknown" <=> call.target \notin DOMAIN label_to_id
        /\ TraceReport.kind = "NotInMemory" <=>
              /\ call.target \in DOMAIN label_to_id
              /\ label_to_id[call.target] \notin DOMAIN active_memory
        /\ TraceReport.kind = "Tree" <=>
              /\ call.target \in DOMAIN label_to_id
              /\ label_to_id[call.target] \in DOMAIN active_memory

\* A step of trace changes neither the Symbol Table, nor Active Memory, nor
\* the Rule Store.
TraceFrame ==
    call'.name = "trace" =>
        UNCHANGED <<label_to_id, id_to_label, next_id, active_memory, links>>

\* C12: trace reports 'unknown concept' exactly when the label was never
\* interned, 'memory does not contain' exactly when it is interned and its
\* identifier is not in Active Memory, and builds a tree exactly when the
\* identifier is in Active Memory; it changes nothing.
C12_TraceOutcomes == [](TraceOutcomeOk) /\ [][TraceFrame]_vars

\* C12 witness: with facts in memory and another label not yet interned,
\* trace has reported a label that is interned and not in memory.
C12_Witness ==
    /\ call.name = "trace"
    /\ TraceReport.kind = "NotInMemory"
    /\ active_memory # EmptyMap
    /\ DOMAIN label_to_id # Labels

\* The marks of all the nodes of a list of subtrees.
RECURSIVE TreeMarks(_)
TreeMarks(children) ==
    UNION {{children[k].node.mark} \cup TreeMarks(children[k].children) :
              k \in DOMAIN children}

\* The depth of a list of subtrees: 0 for the empty list.
RECURSIVE TreeDepth(_)
TreeDepth(children) ==
    IF children = << >> THEN 0
    ELSE LET d == {TreeDepth(children[k].children) : k \in DOMAIN children}
         IN 1 + CHOOSE x \in d : \A y \in d : y <= x

\* C13: every identifier listed in the causes of a Derived entry of Active
\* Memory is a key of Active Memory, and no node of a tree built by trace
\* is marked MISSING.
C13_NoDanglingCauses ==
    /\ \A id \in DOMAIN active_memory :
          active_memory[id].kind = "Derived" =>
             Range(active_memory[id].causes) \subseteq DOMAIN active_memory
    /\ (call.name = "trace" /\ TraceReport.kind = "Tree") =>
          "(MISSING)" \notin {TraceReport.node.mark} \cup TreeMarks(TraceReport.children)

\* C13 witness: trace has built a tree two levels deep, whose root's cause
\* is itself a Derived fact with a cause.
C13_Witness ==
    /\ call.name = "trace"
    /\ TraceReport.kind = "Tree"
    /\ TreeDepth(TraceReport.children) >= 2

\* The identifiers a Derived entry of the memory cites as its causes (none
\* for an Input entry or an absent identifier).
CausesOf(mem, id) ==
    IF id \in DOMAIN mem /\ mem[id].kind = "Derived"
    THEN Range(mem[id].causes)
    ELSE {}

\* The identifiers reachable from the set S along cause links, S included.
RECURSIVE TransitiveCauses(_, _)
TransitiveCauses(mem, S) ==
    LET T == S \cup UNION {CausesOf(mem, id) : id \in S}
    IN IF T = S THEN S ELSE TransitiveCauses(mem, T)

\* No identifier of the memory is its own transitive cause.
Acyclic(mem) ==
    \A id \in DOMAIN mem : id \notin TransitiveCauses(mem, CausesOf(mem, id))

\* The depth of the tree build_tree_recursive builds below an identifier:
\* the number of cause links on its longest chain.
DepthOf(id) == TreeDepth(BuildTree(id_to_label, active_memory, id))

\* C14: in every reachable state the cause links of Active Memory have no
\* cycle, so build_tree_recursive terminates for every identifier in
\* memory, and the depth of every such tree is at most the number of ticks
\* since the last reset that changed memory.
C14_AcyclicProvenance ==
    /\ Acyclic(active_memory)
    /\ \A id \in DOMAIN active_memory : DepthOf(id) <= changed

\* C14 witness: after two ticks that changed memory the engine is at rest
\* with a fact whose tree is two cause links deep.
C14_Witness ==
    /\ pc = "idle"
    /\ call.name = "tick"
    /\ changed = 2
    /\ \E id \in DOMAIN active_memory : DepthOf(id) = 2

\* The tree trace builds for an identifier of Active Memory: its node and
\* the subtrees of its causes.
TreeOf(id) ==
    [node |-> NodeText(id_to_label, active_memory, id),
     children |-> BuildTree(id_to_label, active_memory, id)]

\* The marks of the leaves of a tree (the nodes without children).
RECURSIVE LeafMarks(_)
LeafMarks(t) ==
    IF t.children = << >> THEN {t.node.mark}
    ELSE UNION {LeafMarks(t.children[k]) : k \in DOMAIN t.children}

\* The marks of the internal nodes of a tree (the nodes with children).
RECURSIVE InternalMarks(_)
InternalMarks(t) ==
    IF t.children = << >> THEN {}
    ELSE {t.node.mark} \cup
         UNION {InternalMarks(t.children[k]) : k \in DOMAIN t.children}

\* C15 as claimed: no Derived entry of Active Memory has an empty cause
\* list, every leaf of the tree of a Derived fact is shown as an Input
\* fact, and every internal node is shown as a Derived fact.
C15_LeavesAreInputs ==
    \A id \in DOMAIN active_memory :
       active_memory[id].kind = "Derived" =>
          /\ active_memory[id].causes # << >>
          /\ LeafMarks(TreeOf(id)) \subseteq {"(Input)"}
          /\ InternalMarks(TreeOf(id)) \subseteq {""}

\* C17 as claimed: the Rule Store never holds a link with an empty trigger
\* list, and no tick commits the output of a link with no triggers.
C17_EmptyTriggersRejected ==
    /\ \A i \in DOMAIN links : links[i].triggers # << >>
    /\ call.name = "tick" =>
          \A k \in DOMAIN fired : links[fired[k]].triggers # << >>

\* ------------------------------------------------------------------------
\* The reference scenario: main of simple-flag
\* ------------------------------------------------------------------------

\* The five rules main learns and the three facts it injects.
MainRules ==
    { RuleDef(<<"Knife">>, << >>, "Sharp"),
      RuleDef(<<"Apple">>, << >>, "Fruit"),
      RuleDef(<<"Fruit">>, << >>, "Solid"),
      RuleDef(<<"Sharp", "Solid", "Cut">>, << >>, "Separation"),
      RuleDef(<<"Separation", "Fruit">>, << >>, "Fruit Slices") }

MainInputs == <<"Knife", "Apple", "Cut">>

MainLabels ==
    Range(MainInputs) \cup
    UNION {Range(d.triggers) \cup {d.output} : d \in MainRules}

\* The rule definition d of main has been learned (the five rules have
\* five different outputs).
Learned(d) ==
    \E k \in DOMAIN links : LabelOf(id_to_label, links[k].output) = d.output

\* Phase 1 of main: mind.learn(conditions, result) for a rule not learned
\* yet; the five calls are taken in any order.
MainLearn ==
    /\ pc = "idle"
    /\ call.name \in {"new", "rule"}
    /\ \E d \in MainRules :
          /\ ~Learned(d)
          /\ LET r == DefineRule(Table, links, d.triggers, d.forbids, d.output) IN
             /\ label_to_id' = r.tab.label_to_id
             /\ id_to_label' = r.tab.id_to_label
             /\ next_id' = r.tab.next_id
             /\ links' = r.links
             /\ call' = [name |-> "rule"]
    /\ pre_memory' = EmptyMap
    /\ tick' = 0
    /\ out' = << >>
    /\ fired' = << >>
    /\ ret' = FALSE
    /\ UNCHANGED <<active_memory, pc, changed>>

\* Phase 2 of main: mind.inject(&["Knife", "Apple", "Cut"]), the three
\* labels in any order.
MainInject ==
    /\ pc = "idle"
    /\ call.name = "rule"
    /\ \A d \in MainRules : Learned(d)
    /\ \E inputs \in StoreOrders(MainInputs) :
          LET r == InjectFrom(Table, active_memory, inputs, 1) IN
          /\ label_to_id' = r.tab.label_to_id
          /\ id_to_label' = r.tab.id_to_label
          /\ next_id' = r.tab.next_id
          /\ active_memory' = r.memory
          /\ out' = r.out
          /\ call' = [name |-> "inject", inputs |-> inputs]
    /\ pre_memory' = active_memory
    /\ tick' = 0
    /\ fired' = << >>
    /\ ret' = FALSE
    /\ UNCHANGED <<links, pc, changed>>

\* `let mut tick = 1; loop {` of main.
MainLoop ==
    /\ call.name = "inject"
    /\ Ponder

\* Phase 3 of main: mind.trace(target) once the loop has ended; main asks
\* for "Fruit Slices", the scenario for any of its labels.
MainTrace ==
    /\ pc = "idle"
    /\ call.name \in {"tick", "trace"}
    /\ \E target \in MainLabels :
          /\ out' = <<TraceOf(label_to_id, id_to_label, active_memory, target)>>
          /\ call' = [name |-> "trace", target |-> target]
    /\ pre_memory' = EmptyMap
    /\ tick' = 0
    /\ fired' = << >>
    /\ ret' = FALSE
    /\ UNCHANGED <<label_to_id, id_to_label, next_id, links, active_memory, pc, changed>>

MainNext == MainLearn \/ MainInject \/ MainLoop \/ TickStep \/ MainTrace

MainSpec == Init /\ [][MainNext]_vars

\* The labels of a list of identifiers.
LabelsOfSeq(ids) == [k \in DOMAIN ids |-> LabelOf(id_to_label, ids[k])]

\* The provenance Active Memory records for a label.
SourceOf(lbl) == active_memory[label_to_id[lbl]]

\* The labels main's scenario must newly commit in tick number t.
MainSchedule(t) ==
    IF t = 1 THEN {"Sharp", "Fruit"}
    ELSE IF t = 2 THEN {"Solid"}
    ELSE IF t = 3 THEN {"Separation"}
    ELSE IF t = 4 THEN {"Fruit Slices"}
    ELSE {}

\* C16: in main's scenario (five rules in any order, then Knife, Apple and
\* Cut injected, then the tick loop) tick 1 commits exactly Sharp and
\* Fruit, tick 2 Solid, tick 3 Separation, tick 4 Fruit Slices, each at a
\* depth equal to its tick, and tick 5 commits nothing and ends the loop;
\* from then on memory holds exactly the three inputs as Input facts and
\* the five derived facts, the causes of Fruit Slices are
\* [Separation, Fruit] and the causes of Separation are [Sharp, Solid, Cut].
C16_ReferenceScenario ==
    /\ call.name = "tick" =>
          /\ LabelsIn(id_to_label, [id \in Newly |-> active_memory[id]])
                = MainSchedule(call.tick_count)
          /\ \A id \in Newly : DepthOf(id) = call.tick_count
          /\ \A k \in DOMAIN out : out[k].tick = call.tick_count
          /\ ret = (call.tick_count <= 4)
    /\ (pc = "idle" /\ call.name \in {"tick", "trace"}) =>
          /\ LabelsIn(id_to_label, active_memory) = MainLabels
          /\ Cardinality(DOMAIN active_memory) = Cardinality(MainLabels)
          /\ \A lbl \in Range(MainInputs) : SourceOf(lbl) = Input
          /\ \A lbl \in MainLabels \ Range(MainInputs) :
                SourceOf(lbl).kind = "Derived"
          /\ LabelsOfSeq(SourceOf("Fruit Slices").causes) = <<"Separation", "Fruit">>
          /\ LabelsOfSeq(SourceOf("Separation").causes) = <<"Sharp", "Solid", "Cut">>

\* C16 witness: the loop has ended with tick 5 and trace has built the tree
\* of Fruit Slices, four cause links deep, with Separation and Fruit below
\* the root.
C16_Witness ==
    /\ pc = "idle"
    /\ call.name = "trace"
    /\ call.target = "Fruit Slices"
    /\ TraceReport.kind = "Tree"
    /\ [k \in DOMAIN TraceReport.children |-> TraceReport.children[k].node.label]
          = <<"Separation", "Fruit">>
    /\ TreeDepth(TraceReport.children) = 4
    /\ changed = 4

\* ------------------------------------------------------------------------
\* Self-referential rules and fixed points
\* ------------------------------------------------------------------------

\* A link whose output is one of its own triggers / of its own forbids.
SelfTrigger(link) == link.output \in Range(link.triggers)
SelfForbid(link) == link.output \in Range(link.forbids)

\* The links over the interned identifiers with one or two triggers and at
\* most one forbid.
CandidateLinks ==
    LET ids == DOMAIN id_to_label IN
    {Link(t, f, o) : t \in [1..1 -> ids] \cup [1..2 -> ids],
                     f \in [1..0 -> ids] \cup [1..1 -> ids],
                     o \in ids}

\* Pushing any one of the links of cands on the Rule Store leaves the fixed
\* point reached from the current memory (entries, provenance and number
\* of ticks) as it is.
AddingChangesNothing(cands) ==
    \A link \in cands :
       RunToFixedPoint(Append(links, link), active_memory, id_to_label, 1)
          = RunToFixedPoint(links, active_memory, id_to_label, 1)

\* C18 as claimed: no tick fires a link whose output is one of its own
\* triggers or one of its own forbids.
C18_SelfReferentialInert ==
    call.name = "tick" =>
        \A k \in DOMAIN fired :
           ~SelfTrigger(links[fired[k]]) /\ ~SelfForbid(links[fired[k]])

\* C18, amended: no tick fires a link whose output is one of its own
\* triggers, and adding such a link to the Rule Store changes no fixed
\* point (looked at after every operation that can change the store, the
\* Symbol Table or the memory). A link whose output is only one of its own
\* forbids fires like any other.
C18_SelfTriggerInert ==
    /\ call.name = "tick" =>
          \A k \in DOMAIN fired : ~SelfTrigger(links[fired[k]])
    /\ (pc = "idle" /\ call.name # "trace") =>
          AddingChangesNothing({link \in CandidateLinks : SelfTrigger(link)})

\* C18 witness: a tick has fired a link while the Rule Store also holds a
\* link whose output is its own trigger, with all its triggers in memory.
C18_Witness ==
    /\ call.name = "tick"
    /\ ret
    /\ \E i \in DOMAIN links :
          /\ SelfTrigger(links[i])
          /\ Range(links[i].triggers) \subseteq DOMAIN pre_memory
          /\ Range(links[i].forbids) \cap DOMAIN pre_memory = {}

\* A link is closed in the memory m: its output is in m, or one of its
\* triggers is not in m, or one of its forbids is in m.
Closed(link, m) ==
    \/ link.output \in DOMAIN m
    \/ \E k \in DOMAIN link.triggers : link.triggers[k] \notin DOMAIN m
    \/ \E k \in DOMAIN link.forbids : link.forbids[k] \in DOMAIN m

\* A call to tick in the current state would return false.
Quiescent == ~Tick(links, active_memory, id_to_label, 1).ret

\* When tick has returned false every link of the Rule Store is closed in
\* Active Memory and another call to tick would return false.
FixedPointClosed ==
    (call.name = "tick" /\ ~ret) =>
        /\ \A i \in DOMAIN links : Closed(links[i], active_memory)
        /\ Quiescent

\* While tick would return false, an operation other than inject,
\* reset_memory and a rule definition leaves it so.
StaysQuiescent ==
    (Quiescent /\ call'.name \notin {"inject", "reset_memory", "rule"}) => Quiescent'

\* C19: in every state in which tick has returned false, every link of the
\* Rule Store has its output in Active Memory, or a trigger that is not in
\* Active Memory, or a forbid that is in Active Memory, and a second call
\* to tick returns false too; only inject, reset_memory or a new rule
\* definition can make tick return true again.
C19_FixedPointClosure == [](FixedPointClosed) /\ [][StaysQuiescent]_vars

\* C19 witness: tick has returned false with one link closed by its output
\* being in memory, and another, its triggers present and its output
\* absent, closed by a forbid that is in memory.
C19_Witness ==
    /\ call.name = "tick"
    /\ ~ret
    /\ \E i, j \in DOMAIN links :
          /\ links[i].output \in DOMAIN active_memory
          /\ Range(links[i].triggers) \subseteq DOMAIN active_memory
          /\ links[j].output \notin DOMAIN active_memory
          /\ Range(links[j].triggers) \subseteq DOMAIN active_memory
          /\ Range(links[j].forbids) \cap DOMAIN active_memory # {}

\* The Rule Store is one of the simple variant: no link has a forbid.
ForbidFree == \A i \in DOMAIN links : links[i].forbids = << >>

\* The identifiers with Input provenance in a memory: the facts injected
\* since it was last empty.
InputIds(mem) == {id \in DOMAIN mem : mem[id].kind = "Input"}

\* The set X of identifiers is closed under the rules: it holds the output
\* of every link whose triggers are all in it.
ClosedUnder(X) ==
    \A i \in DOMAIN links : Range(links[i].triggers) \subseteq X => links[i].output \in X

\* Every identifier of F is in D or is the output of a link whose triggers
\* are all in F.
Supported(F, D) ==
    \A id \in F :
       id \in D \/ \E i \in DOMAIN links :
                      links[i].output = id /\ Range(links[i].triggers) \subseteq F

\* F is the least set of the identifiers ids that contains D and is closed
\* under the rules.
LeastClosed(F, D, ids) ==
    /\ D \subseteq F
    /\ ClosedUnder(F)
    /\ \A X \in SUBSET ids : (D \subseteq X /\ ClosedUnder(X)) => F \subseteq X

\* C20: with a Rule Store without forbids, the identifiers in memory at
\* the fixed point reached from the current state are the least set that
\* contains the injected facts and is closed under the rules, each of them
\* injected or the output of a link whose triggers are all in memory; and
\* after injecting further facts into that fixed point and running again,
\* memory is again such a least set and holds every fact it held before.
C20_LeastFixedPoint ==
    (pc = "idle" /\ call.name # "trace" /\ ForbidFree) =>
        LET fp == RunToFixedPoint(links, active_memory, id_to_label, 1).memory
            D == InputIds(active_memory)
        IN /\ LeastClosed(DOMAIN fp, D, DOMAIN id_to_label)
           /\ Supported(DOMAIN fp, D)
           /\ \A inputs \in SeqsUpTo(Labels, MaxInject) :
                 LET s == InjectFrom(Table, fp, inputs, 1)
                     again == RunToFixedPoint(links, s.memory, s.tab.id_to_label, 1).memory
                 IN /\ DOMAIN fp \subseteq DOMAIN again
                    /\ LeastClosed(DOMAIN again, InputIds(s.memory),
                                   DOMAIN s.tab.id_to_label)

\* C20 witness: tick has returned false with a Rule Store of two links
\* without forbids, a derived fact in memory and an interned identifier
\* that is not in memory.
C20_Witness ==
    /\ call.name = "tick"
    /\ ~ret
    /\ ForbidFree
    /\ Len(links) = MaxLinks
    /\ \E id \in DOMAIN active_memory : active_memory[id].kind = "Derived"
    /\ InputIds(active_memory) # {}
    /\ DOMAIN active_memory # DOMAIN id_to_label

====
